---------------------------- MODULE Spec2Model ----------------------------
(***************************************************************************)
(* A model of package colorize (colorize.go): hex colour validation and    *)
(* parsing, RGB -> Xterm reduction, escape-code generation and the text    *)
(* formatter, with the package-level variables trueColor, xTerm and        *)
(* colorPtr as state.                                                      *)
(*                                                                         *)
(* Go strings are modelled as sequences of one-character strings; the      *)
(* escape byte \033 is the element ESC.  Pointers to color are addresses   *)
(* into heap; the nil pointer is Nil.                                      *)
(***************************************************************************)
EXTENDS Integers, Sequences, FiniteSets, TLC

VARIABLES
    trueColor,  \* package variable trueColor
    xTerm,      \* package variable xTerm
    heap,       \* the color objects allocated by getColor, by address
    colorPtr,   \* package variable colorPtr (an address, or Nil)
    call,       \* the call that has just returned (sequential callers)
    ret,        \* what that call returned
    prior,      \* what happened before that call: earlier calls, flag changes
    gs          \* the goroutines running calls concurrently

vars == <<trueColor, xTerm, heap, colorPtr, call, ret, prior, gs>>

-----------------------------------------------------------------------------
(* Bounds of the model *)

\* longest list of style names in Options.Styles
MaxStyles == 2
\* longest string tried as a hex colour code
MaxHexLen == 7
\* number of addresses of the heap
MaxAddr == 4
\* number of goroutines calling the package concurrently
NumGoroutines == 2

-----------------------------------------------------------------------------
(* Characters and strings *)

ESC == "ESC"

DecDigits == <<"0", "1", "2", "3", "4", "5", "6", "7", "8", "9">>
LowerHex == <<"a", "b", "c", "d", "e", "f">>
UpperHex == <<"A", "B", "C", "D", "E", "F">>

Range(s) == {s[i] : i \in DOMAIN s}

IndexOf(s, c) == CHOOSE i \in DOMAIN s : s[i] = c

\* the character class [0-9a-fA-F] of regex
HexClass == Range(DecDigits) \cup Range(LowerHex) \cup Range(UpperHex)

\* the value strconv gives a digit character in base 16
DigitVal(c) ==
    IF c \in Range(DecDigits) THEN IndexOf(DecDigits, c) - 1
    ELSE IF c \in Range(LowerHex) THEN 9 + IndexOf(LowerHex, c)
    ELSE 9 + IndexOf(UpperHex, c)

RECURSIVE ParseUint(_, _)
\* strconv.ParseUint(s, base, 8) on a string of digits of that base
ParseUint(s, base) ==
    IF s = <<>> THEN 0
    ELSE ParseUint(SubSeq(s, 1, Len(s) - 1), base) * base + DigitVal(s[Len(s)])

RECURSIVE Itoa(_)
\* the decimal digits fmt prints for %d of a non-negative integer
Itoa(n) ==
    IF n < 10 THEN <<DecDigits[n + 1]>>
    ELSE Itoa(n \div 10) \o <<DecDigits[(n % 10) + 1]>>

-----------------------------------------------------------------------------
(* Constants of the package *)

fgTrueColor == <<ESC, "[", "3", "8", ";", "2", ";">>
bgTrueColor == <<ESC, "[", "4", "8", ";", "2", ";">>
fgXterm == <<ESC, "[", "3", "8", ";", "5", ";">>
bgXterm == <<ESC, "[", "4", "8", ";", "5", ";">>
reset == <<ESC, "[", "0", "m">>

scalingFactor == 255 \div 5
xTermBlack == 0
xTermWhite == 15
grayOffset == 232
colorOffset == 16
colorFactor1 == 36
colorFactor2 == 6

background == "background"
foreground == "foreground"

styles ==
    [s \in {"bold", "italic", "underline", "blink", "reverse", "hidden", "stroke"} |->
        CASE s = "bold" -> <<ESC, "[", "1", "m">>
          [] s = "italic" -> <<ESC, "[", "3", "m">>
          [] s = "underline" -> <<ESC, "[", "4", "m">>
          [] s = "blink" -> <<ESC, "[", "5", "m">>
          [] s = "reverse" -> <<ESC, "[", "7", "m">>
          [] s = "hidden" -> <<ESC, "[", "8", "m">>
          [] s = "stroke" -> <<ESC, "[", "9", "m">>]

\* styles[s] of a Go map: the zero value "" for a missing key
StyleCode(s) == IF s \in DOMAIN styles THEN styles[s] ELSE <<>>

-----------------------------------------------------------------------------
(* Values *)

\* the nil pointer
Nil == 0
Addrs == 1 .. MaxAddr

Color(r, g, b) == [r |-> r, g |-> g, b |-> b]
\* an address of the heap holding no object
Free == [r |-> -1, g |-> -1, b |-> -1]

\* the nil error
NoErr == [name |-> "nil", arg |-> <<>>]
\* newColorizeErr("HEXERR", "invalid hex code: " + hex)
HexErr(hex) == [name |-> "HEXERR", arg |-> hex]
\* newColorizeErr("SYSNOCOLOR", ...)
SysNoColorErr == [name |-> "SYSNOCOLOR", arg |-> <<>>]
\* fmt.Errorf("No options provided")
NoOptionsErr == [name |-> "No options provided", arg |-> <<>>]


\* &Options{...}; nil is the record with isNil set
Opts(bg, fg, st) == [isNil |-> FALSE, BgColor |-> bg, FgColor |-> fg, Styles |-> st]
NilOptions == [isNil |-> TRUE, BgColor |-> <<>>, FgColor |-> <<>>, Styles |-> <<>>]

\* the memory a call works on: the heap and the package-level slot colorPtr
Mem(h, p) == [heap |-> h, colorPtr |-> p]
EmptyHeap == [a \in Addrs |-> Free]
InitMem == Mem(EmptyHeap, Nil)

\* uint8(x)
Uint8(x) == x % 256

-----------------------------------------------------------------------------
(* The hex validator *)

\* one token of the pattern: a character class, whether it is optional (?),
\* and the capture group it belongs to (0: none)
Tok(class, opt, group) == [class |-> class, opt |-> opt, group |-> group]

\* the pattern with the class [0-9a-f] in place of [0-9a-fA-F]
regexLowerOnly ==
    LET lower == Range(DecDigits) \cup Range(LowerHex)
    IN <<Tok({"#"}, TRUE, 0),
         Tok(lower, FALSE, 1), Tok(lower, FALSE, 1),
         Tok(lower, FALSE, 2), Tok(lower, FALSE, 2),
         Tok(lower, FALSE, 3), Tok(lower, FALSE, 3)>>

\* ^#?([0-9a-fA-F]{2})([0-9a-fA-F]{2})([0-9a-fA-F]{2})$
regex ==
    <<Tok({"#"}, TRUE, 0),
      Tok(HexClass, FALSE, 1), Tok(HexClass, FALSE, 1),
      Tok(HexClass, FALSE, 2), Tok(HexClass, FALSE, 2),
      Tok(HexClass, FALSE, 3), Tok(HexClass, FALSE, 3)>>

RECURSIVE regexRun(_, _, _)
\* the captures of the matches of pattern p against the whole of s (both
\* anchors): a token consumes a character of its class, an optional token
\* may also be skipped, and the end of the pattern must be the end of s
regexRun(p, s, caps) ==
    IF p = <<>> THEN (IF s = <<>> THEN {caps} ELSE {})
    ELSE LET t == Head(p)
             take == IF s # <<>> /\ Head(s) \in t.class
                     THEN regexRun(Tail(p), Tail(s),
                                   IF t.group = 0 THEN caps
                                   ELSE [caps EXCEPT ![t.group] = @ \o <<Head(s)>>])
                     ELSE {}
             skip == IF t.opt THEN regexRun(Tail(p), s, caps) ELSE {}
         IN take \cup skip

\* regex.MatchString(hex)
MatchString(hex) == regexRun(regex, hex, <<<<>>, <<>>, <<>>>>) # {}

\* regex.FindStringSubmatch(hex)[1:], for a hex that matches
FindStringSubmatch(hex) == CHOOSE m \in regexRun(regex, hex, <<<<>>, <<>>, <<>>>>) : TRUE

validateHex(hex) == IF ~MatchString(hex) THEN HexErr(hex) ELSE NoErr

\* &color{...}: the address of a new object, one that holds no object yet
Alloc(h) == CHOOSE a \in Addrs : h[a] = Free /\ \A b \in Addrs : h[b] = Free => a <= b

\* the store skipped when the slot already holds a color
storeColorCached(hex, mem) ==
    IF mem.colorPtr # Nil THEN mem
    ELSE LET match == FindStringSubmatch(hex)
             a == Alloc(mem.heap)
         IN Mem([mem.heap EXCEPT ![a] = Color(Uint8(ParseUint(match[1], 16)),
                                              Uint8(ParseUint(match[2], 16)),
                                              Uint8(ParseUint(match[3], 16)))], a)

\* the store made through the slot: the color the slot points at overwritten
\* in place, a new one allocated only while the slot is nil
storeColorInPlace(hex, mem) ==
    LET match == FindStringSubmatch(hex)
        col == Color(Uint8(ParseUint(match[1], 16)),
                     Uint8(ParseUint(match[2], 16)),
                     Uint8(ParseUint(match[3], 16)))
    IN IF mem.colorPtr # Nil
       THEN Mem([mem.heap EXCEPT ![mem.colorPtr] = col], mem.colorPtr)
       ELSE Mem([mem.heap EXCEPT ![Alloc(mem.heap)] = col], Alloc(mem.heap))

\* getColor's store: colorPtr = &color{uint8(r), uint8(g), uint8(b)}
storeColor(hex, mem) ==
    LET match == FindStringSubmatch(hex)
        r == ParseUint(match[1], 16)
        g == ParseUint(match[2], 16)
        b == ParseUint(match[3], 16)
        a == Alloc(mem.heap)
    IN Mem([mem.heap EXCEPT ![a] = Color(Uint8(r), Uint8(g), Uint8(b))], a)

\* getColor's return after the store: return colorPtr, nil
loadColorPtr(mem) == [col |-> mem.colorPtr, err |-> NoErr, mem |-> mem]

\* getColor(hex) run without interruption on memory mem: the pointer and the
\* error it returns, and the memory it leaves
getColor(hex, mem) ==
    IF validateHex(hex) # NoErr THEN [col |-> Nil, err |-> validateHex(hex), mem |-> mem]
    ELSE loadColorPtr(storeColor(hex, mem))

-----------------------------------------------------------------------------
(* The colour-space reducer and the code generator *)

\* math.Round(num/den) for num, den > 0: to the nearest integer, halves away
\* from zero
Round(num, den) == (2 * num + den) \div (2 * den)

\* the level without the bias 0.4
LevelNoBias(c) == Uint8(Round(c, scalingFactor))

\* the level without math.Round: the conversion to uint8 truncates
LevelNoRound(c) == Uint8((5 * c + 2 * scalingFactor) \div (5 * scalingFactor))

\* uint8(math.Round(float64(c)/scalingFactor + 0.4)), the sum taken exactly as
\* (5c + 2*scalingFactor) / (5*scalingFactor); it is never within 1/510 of a
\* half, so float64 rounds as the exact value does
Level(c) == Uint8(Round(5 * c + 2 * scalingFactor, 5 * scalingFactor))

\* rgbToXterm with the factors of the red and the green level exchanged
rgbToXtermSwapped(col) ==
    LET rInt == Level(col.r)
        gInt == Level(col.g)
        bInt == Level(col.b)
    IN IF rInt = gInt /\ gInt = bInt
       THEN IF rInt = 0 THEN xTermBlack
            ELSE IF rInt = 5 THEN xTermWhite
            ELSE Uint8(grayOffset + Uint8(Uint8(rInt - 1) * 5))
       ELSE Uint8(colorOffset + colorFactor1 * gInt + colorFactor2 * rInt + bInt)

\* rgbToXterm(col), col the color object itself
rgbToXterm(col) ==
    LET rInt == Level(col.r)
        gInt == Level(col.g)
        bInt == Level(col.b)
    IN IF rInt = gInt /\ gInt = bInt
       THEN IF rInt = 0 THEN xTermBlack
            ELSE IF rInt = 5 THEN xTermWhite
            ELSE Uint8(grayOffset + Uint8(Uint8(rInt - 1) * 5))
       ELSE Uint8(colorOffset + colorFactor1 * rInt + colorFactor2 * gInt + bInt)

\* the true-color code without its final m
getTCCodeNoM(col, ctx) ==
    (IF ctx = background THEN bgTrueColor ELSE fgTrueColor)
        \o Itoa(col.r) \o <<";">> \o Itoa(col.g) \o <<";">> \o Itoa(col.b)

\* getTCCode(col, ctx), col the color object itself
getTCCode(col, ctx) ==
    IF ctx = background
    THEN bgTrueColor \o Itoa(col.r) \o <<";">> \o Itoa(col.g) \o <<";">> \o Itoa(col.b) \o <<"m">>
    ELSE fgTrueColor \o Itoa(col.r) \o <<";">> \o Itoa(col.g) \o <<";">> \o Itoa(col.b) \o <<"m">>

\* getXTCode(col, ctx), col the color object itself
getXTCode(col, ctx) ==
    IF ctx = background
    THEN bgXterm \o Itoa(rgbToXterm(col)) \o <<"m">>
    ELSE fgXterm \o Itoa(rgbToXterm(col)) \o <<"m">>

\* what a call returns, and the memory it leaves
Ret(str, err, mem) == [str |-> str, err |-> err, mem |-> mem]

\* xTerm looked at before trueColor
codeOfXtermFirst(c, ctx, tc, xt) ==
    IF c.err # NoErr THEN Ret(<<>>, c.err, c.mem)
    ELSE IF xt THEN Ret(getXTCode(c.mem.heap[c.col], ctx), NoErr, c.mem)
    ELSE IF tc THEN Ret(getTCCode(c.mem.heap[c.col], ctx), NoErr, c.mem)
    ELSE Ret(<<>>, SysNoColorErr, c.mem)

\* GetColor after its call of getColor returned c: the error, or the code
\* the flags choose
codeOf(c, ctx, tc, xt) ==
    IF c.err # NoErr THEN Ret(<<>>, c.err, c.mem)
    ELSE IF tc THEN Ret(getTCCode(c.mem.heap[c.col], ctx), NoErr, c.mem)
    ELSE IF xt THEN Ret(getXTCode(c.mem.heap[c.col], ctx), NoErr, c.mem)
    ELSE Ret(<<>>, SysNoColorErr, c.mem)

\* GetColor(hex, ctx) under flags tc, xt, run without interruption on mem
GetColor(hex, ctx, tc, xt, mem) == codeOf(getColor(hex, mem), ctx, tc, xt)

-----------------------------------------------------------------------------
(* The text formatter *)

\* options == nil || (BgColor == "" && FgColor == "" && len(Styles) == 0)
noOptions(options) ==
    options.isNil \/
        (options.BgColor = <<>> /\ options.FgColor = <<>> /\ Len(options.Styles) = 0)

RECURSIVE writeStyles(_)
\* for _, s := range options.Styles { builder.WriteString(styles[s]) }
writeStyles(names) ==
    IF names = <<>> THEN <<>>
    ELSE StyleCode(Head(names)) \o writeStyles(Tail(names))

\* a colour block of FormatText after its call of getColor returned c: the
\* error, or the code of the branch (true color or Xterm) appended to builder
appendCode(c, ctx, tc, builder) ==
    IF c.err # NoErr THEN [err |-> c.err, builder |-> builder, mem |-> c.mem]
    ELSE [err |-> NoErr,
          builder |-> builder \o (IF tc THEN getTCCode(c.mem.heap[c.col], ctx)
                                  ELSE getXTCode(c.mem.heap[c.col], ctx)),
          mem |-> c.mem]

\* one colour block of FormatText: nothing if the hex is "", else getColor
\* and the code
writeColor(hex, ctx, tc, builder, mem) ==
    IF hex = <<>> THEN [err |-> NoErr, builder |-> builder, mem |-> mem]
    ELSE appendCode(getColor(hex, mem), ctx, tc, builder)

\* reset appended whatever was written
finishAlwaysReset(builder, text) == builder \o text \o reset

\* the end of FormatText: the text, then reset unless nothing was written
\* before the text
finish(builder, text) ==
    LET b == builder \o text
    IN IF Len(b) = Len(text) THEN b ELSE b \o reset

\* what the builder holds returned with the error
afterFgKeepsBuilder(text, fg) ==
    IF fg.err # NoErr THEN Ret(fg.builder \o text, fg.err, fg.mem)
    ELSE Ret(finish(fg.builder, text), NoErr, fg.mem)

\* FormatText after its foreground block fg: the text and the error, or the
\* finished string
afterFg(text, fg) ==
    IF fg.err # NoErr THEN Ret(text, fg.err, fg.mem)
    ELSE Ret(finish(fg.builder, text), NoErr, fg.mem)

\* FormatText after its background block bg: the text and the error, or the
\* foreground block and the rest
afterBg(text, options, tc, bg) ==
    IF bg.err # NoErr THEN Ret(text, bg.err, bg.mem)
    ELSE afterFg(text, writeColor(options.FgColor, foreground, tc, bg.builder, bg.mem))

\* the foreground block before the background block
formatColorsFgFirst(text, options, tc, builder, mem) ==
    LET fg == writeColor(options.FgColor, foreground, tc, builder, mem)
    IN IF fg.err # NoErr THEN Ret(text, fg.err, fg.mem)
       ELSE afterFg(text, writeColor(options.BgColor, background, tc, fg.builder, fg.mem))

\* the colour blocks of FormatText and its end, from the builder holding the
\* styles
formatColors(text, options, tc, builder, mem) ==
    afterBg(text, options, tc, writeColor(options.BgColor, background, tc, builder, mem))

\* the flags checked before the options
FormatTextFlagsFirst(text, options, tc, xt, mem) ==
    IF ~tc /\ ~xt THEN Ret(text, SysNoColorErr, mem)
    ELSE IF noOptions(options) THEN Ret(text, NoOptionsErr, mem)
    ELSE formatColors(text, options, tc, writeStyles(options.Styles), mem)

\* FormatText(text, options) under flags tc, xt, run without interruption on mem
FormatText(text, options, tc, xt, mem) ==
    IF noOptions(options) THEN Ret(text, NoOptionsErr, mem)
    ELSE IF ~tc /\ ~xt THEN Ret(text, SysNoColorErr, mem)
    ELSE formatColors(text, options, tc, writeStyles(options.Styles), mem)

ForegroundText(text, color, tc, xt, mem) ==
    FormatText(text, Opts(<<>>, color, <<>>), tc, xt, mem)

BackgroundText(text, color, tc, xt, mem) ==
    FormatText(text, Opts(color, <<>>, <<>>), tc, xt, mem)

\* t, _ := ...: the error is dropped
dropErr(t) == Ret(t.str, NoErr, t.mem)

StyleText(text, names, tc, xt, mem) ==
    dropErr(FormatText(text, Opts(<<>>, <<>>, names), tc, xt, mem))

-----------------------------------------------------------------------------
(* Callers: the calls made, and what they returned *)

Call(op, text, options, hex, ctx, col) ==
    [op |-> op, text |-> text, options |-> options, hex |-> hex, ctx |-> ctx, col |-> col]
NoCall == Call("none", <<>>, NilOptions, <<>>, foreground, Free)

\* a returned string and error, the pointer returned (getColor) and the
\* index returned (rgbToXterm)
Returned(str, err, ptr, code) ==
    [done |-> TRUE, str |-> str, err |-> err, ptr |-> ptr, code |-> code]
NoRet == [done |-> FALSE, str |-> <<>>, err |-> NoErr, ptr |-> Nil, code |-> 0]

Goroutines == 1 .. NumGoroutines
IdleG == [pc |-> "idle", call |-> NoCall, own |-> Nil, builder |-> <<>>,
          str |-> <<>>, err |-> NoErr]

\* the garbage collector: only the objects reachable from roots stay
Collect(h, roots) == [a \in Addrs |-> IF a \in roots THEN h[a] ELSE Free]

\* hex codes of the tests
hexRed == <<"#", "F", "F", "0", "0", "0", "0">>
hexBlue == <<"#", "0", "0", "0", "0", "F", "F">>
hexBadRed == <<"#", "F", "F", "0", "0", "0", "0", "0">>
hexBadBlue == <<"#", "0", "0", "0", "0", "F", "F", "0">>
hexMixed == <<"1", "2", "a", "b", "A", "B">>
hexGray == <<"8", "0", "8", "0", "8", "0">>
hexNotHex == <<"#", "F", "F", "0", "0", "0", "H">>

Texts ==
    {<<>>, <<"h", "i">>, <<ESC, "[", "1", "m", "h", "i">>, <<"o", "k", ESC, "[", "0", "m">>}
BgHexes == {<<>>, hexBlue, hexBadBlue}
FgHexes == {<<>>, hexRed, hexBadRed, hexMixed}
GetColorHexes == {<<>>, hexRed, hexMixed, hexGray, hexNotHex}
Contexts == {background, foreground, "other"}
StyleChoices == {"bold", "italic", "invalid"}
StyleLists == UNION {[1 .. n -> StyleChoices] : n \in 0 .. MaxStyles}
OptionsSet ==
    {NilOptions} \cup {Opts(bg, fg, st) : bg \in BgHexes, fg \in FgHexes, st \in StyleLists}

TypeOK ==
    /\ trueColor \in BOOLEAN
    /\ xTerm \in BOOLEAN
    /\ colorPtr \in Addrs \cup {Nil}
    /\ DOMAIN heap = Addrs
    /\ colorPtr # Nil => heap[colorPtr] # Free
    /\ ret.done \in BOOLEAN
    /\ prior \in [calls : BOOLEAN, flags : BOOLEAN, slot : BOOLEAN]
    /\ DOMAIN gs = Goroutines

\* nothing happened yet: no call returned, the flags were not changed, the
\* slot colorPtr was nil when the last result was dropped
NoPrior == [calls |-> FALSE, flags |-> FALSE, slot |-> FALSE]

\* the process starts: the flags are what the environment says, nothing has
\* been called
Init ==
    /\ trueColor \in BOOLEAN
    /\ xTerm \in BOOLEAN
    /\ heap = EmptyHeap
    /\ colorPtr = Nil
    /\ call = NoCall
    /\ ret = NoRet
    /\ prior = NoPrior
    /\ gs = [g \in Goroutines |-> IdleG]

\* a call c returns r (a Ret): the caller holds the result, the memory is
\* what the call left, less the garbage
Returns(c, r) ==
    /\ call.op = "none"
    /\ call' = c
    /\ ret' = Returned(r.str, r.err, Nil, 0)
    /\ heap' = Collect(r.mem.heap, {r.mem.colorPtr})
    /\ colorPtr' = r.mem.colorPtr
    /\ UNCHANGED <<trueColor, xTerm, prior, gs>>

CallFormatText(text, options) ==
    Returns(Call("FormatText", text, options, <<>>, foreground, Free),
            FormatText(text, options, trueColor, xTerm, Mem(heap, colorPtr)))

CallForegroundText(text, color) ==
    Returns(Call("ForegroundText", text, NilOptions, color, foreground, Free),
            ForegroundText(text, color, trueColor, xTerm, Mem(heap, colorPtr)))

CallBackgroundText(text, color) ==
    Returns(Call("BackgroundText", text, NilOptions, color, background, Free),
            BackgroundText(text, color, trueColor, xTerm, Mem(heap, colorPtr)))

CallStyleText(text, names) ==
    Returns(Call("StyleText", text, Opts(<<>>, <<>>, names), <<>>, foreground, Free),
            StyleText(text, names, trueColor, xTerm, Mem(heap, colorPtr)))

CallGetColor(hex, ctx) ==
    Returns(Call("GetColor", <<>>, NilOptions, hex, ctx, Free),
            GetColor(hex, ctx, trueColor, xTerm, Mem(heap, colorPtr)))

\* the caller has used the result and is ready for its next call
Discard ==
    /\ call.op # "none"
    /\ call' = NoCall
    /\ ret' = NoRet
    /\ prior' = [prior EXCEPT !.calls = TRUE, !.slot = (colorPtr # Nil)]
    /\ UNCHANGED <<trueColor, xTerm, heap, colorPtr, gs>>

\* the flags are changed from outside between two calls, as the tests do
SetFlags(tc, xt) ==
    /\ call.op = "none"
    /\ <<tc, xt>> # <<trueColor, xTerm>>
    /\ trueColor' = tc
    /\ xTerm' = xt
    /\ prior' = [prior EXCEPT !.flags = TRUE]
    /\ UNCHANGED <<heap, colorPtr, call, ret, gs>>

Next ==
    \/ \E text \in Texts, options \in OptionsSet : CallFormatText(text, options)
    \/ \E text \in Texts, color \in FgHexes : CallForegroundText(text, color)
    \/ \E text \in Texts, color \in BgHexes : CallBackgroundText(text, color)
    \/ \E text \in Texts, names \in StyleLists : CallStyleText(text, names)
    \/ \E hex \in GetColorHexes, ctx \in Contexts : CallGetColor(hex, ctx)
    \/ Discard
    \/ \E tc \in BOOLEAN, xt \in BOOLEAN : SetFlags(tc, xt)

Spec == Init /\ [][Next]_vars

-----------------------------------------------------------------------------
(* The hex validator alone: getColor and validateHex on every short string *)

HexAlphabet == {"#", "9", "a", "F", "g"}

\* validHex and badHex of the tests
TestHexes ==
    {<<"#", "F", "F", "F", "F", "F", "F">>, <<"F", "F", "F", "F", "F", "F">>,
     <<"#", "0", "0", "0", "0", "0", "0">>, <<"0", "0", "0", "0", "0", "0">>,
     <<"#", "a", "b", "c", "d", "e", "f">>, <<"A", "B", "C", "D", "E", "F">>,
     <<"#", "1", "2", "a", "b", "A", "B">>, <<"1", "2", "a", "b", "A", "B">>,
     <<"F", "F", "0", "0", "0", "0", "0">>, <<"F", "F", "0", "0">>,
     <<"F", "F", "0", "0", "0", "H">>, <<"#", "F", "F", "0", "0", "0", "0", "0">>,
     <<"#", "F", "F", "0", "0">>, <<"#", "F", "F", "0", "0", "0", "H">>}

HexInputs == TestHexes \cup UNION {[1 .. n -> HexAlphabet] : n \in 0 .. MaxHexLen}

InitHex ==
    /\ trueColor = TRUE
    /\ xTerm = FALSE
    /\ heap = EmptyHeap
    /\ colorPtr = Nil
    /\ call \in {Call(op, <<>>, NilOptions, hex, foreground, Free) :
                    op \in {"getColor", "validateHex"}, hex \in HexInputs}
    /\ ret = NoRet
    /\ prior = NoPrior
    /\ gs = [g \in Goroutines |-> IdleG]

\* the pending call of getColor is made
ApplyGetColor ==
    /\ call.op = "getColor"
    /\ ~ret.done
    /\ LET r == getColor(call.hex, Mem(heap, colorPtr))
       IN /\ ret' = Returned(<<>>, r.err, r.col, 0)
          /\ heap' = r.mem.heap
          /\ colorPtr' = r.mem.colorPtr
    /\ UNCHANGED <<trueColor, xTerm, call, prior, gs>>

\* the pending call of validateHex is made
ApplyValidateHex ==
    /\ call.op = "validateHex"
    /\ ~ret.done
    /\ ret' = Returned(<<>>, validateHex(call.hex), Nil, 0)
    /\ UNCHANGED <<trueColor, xTerm, heap, colorPtr, call, prior, gs>>

NextHex == ApplyGetColor \/ ApplyValidateHex

SpecHex == InitHex /\ [][NextHex]_vars

-----------------------------------------------------------------------------
(* The colour-space reducer alone: rgbToXterm on grays and on the levels' edges *)

\* channel values on both sides of every change of level
ChannelSamples == {0, 5, 6, 56, 57, 107, 108, 158, 159, 209, 210, 255}

XtermInputs ==
    {Color(v, v, v) : v \in 0 .. 255} \cup
        {Color(r, g, b) : r \in ChannelSamples, g \in ChannelSamples, b \in ChannelSamples}

InitXterm ==
    /\ trueColor = FALSE
    /\ xTerm = TRUE
    /\ heap = EmptyHeap
    /\ colorPtr = Nil
    /\ call \in {Call("rgbToXterm", <<>>, NilOptions, <<>>, foreground, col) :
                    col \in XtermInputs}
    /\ ret = NoRet
    /\ prior = NoPrior
    /\ gs = [g \in Goroutines |-> IdleG]

\* the pending call of rgbToXterm is made
ApplyRgbToXterm ==
    /\ call.op = "rgbToXterm"
    /\ ~ret.done
    /\ ret' = Returned(<<>>, NoErr, Nil, rgbToXterm(call.col))
    /\ UNCHANGED <<trueColor, xTerm, heap, colorPtr, call, prior, gs>>

NextXterm == ApplyRgbToXterm

SpecXterm == InitXterm /\ [][NextXterm]_vars

-----------------------------------------------------------------------------
(* Concurrent callers: goroutines calling FormatText and GetColor.  A step  *)
(* of a goroutine is the code between two accesses of the shared slot       *)
(* colorPtr: getColor stores to the slot (colorPtr = &color{...}) and then  *)
(* loads it (return colorPtr), with no synchronization.  The color objects  *)
(* are never written after their allocation.                                 *)

ConcTexts == {<<"h", "i">>}
ConcOptions ==
    {NilOptions, Opts(<<>>, hexRed, <<>>), Opts(hexBlue, hexRed, <<"bold">>),
     Opts(hexBadBlue, hexRed, <<>>), Opts(<<>>, <<>>, <<"bold">>)}
ConcHexes == {hexRed, hexGray, hexNotHex}

InitConc ==
    /\ trueColor \in BOOLEAN
    /\ xTerm \in BOOLEAN
    /\ heap = EmptyHeap
    /\ colorPtr = Nil
    /\ call = NoCall
    /\ ret = NoRet
    /\ prior = NoPrior
    /\ gs = [g \in Goroutines |-> IdleG]

\* the pointers held: the slot, and what each goroutine stored and has not
\* loaded yet
Roots(slot, goroutines) == ({slot} \cup {goroutines[g].own : g \in Goroutines}) \ {Nil}

\* goroutine g goes on as rec, the memory becomes mem, less the garbage
Step(g, rec, mem) ==
    /\ gs' = [gs EXCEPT ![g] = rec]
    /\ colorPtr' = mem.colorPtr
    /\ heap' = Collect(mem.heap, Roots(mem.colorPtr, [gs EXCEPT ![g] = rec]))
    /\ UNCHANGED <<trueColor, xTerm, call, ret, prior>>

\* goroutine g returns str, err
Done(g, str, err) == [gs[g] EXCEPT !.pc = "done", !.own = Nil, !.str = str, !.err = err]

\* g calls FormatText: the checks of the options and of the flags, and the
\* styles
GoFormatText(g, text, options) ==
    /\ gs[g].pc = "idle"
    /\ LET c == Call("FormatText", text, options, <<>>, foreground, Free)
           me == [gs[g] EXCEPT !.call = c]
       IN IF noOptions(options)
          THEN Step(g, [me EXCEPT !.pc = "done", !.str = text, !.err = NoOptionsErr],
                    Mem(heap, colorPtr))
          ELSE IF ~trueColor /\ ~xTerm
          THEN Step(g, [me EXCEPT !.pc = "done", !.str = text, !.err = SysNoColorErr],
                    Mem(heap, colorPtr))
          ELSE Step(g, [me EXCEPT !.pc = "bg", !.builder = writeStyles(options.Styles)],
                    Mem(heap, colorPtr))

\* g calls GetColor
GoGetColor(g, hex, ctx) ==
    /\ gs[g].pc = "idle"
    /\ Step(g, [gs[g] EXCEPT !.pc = "gc",
                             !.call = Call("GetColor", <<>>, NilOptions, hex, ctx, Free)],
            Mem(heap, colorPtr))

\* the hex g is about to give getColor
HexAt(g) ==
    CASE gs[g].pc = "bg" -> gs[g].call.options.BgColor
      [] gs[g].pc = "fg" -> gs[g].call.options.FgColor
      [] gs[g].pc = "gc" -> gs[g].call.hex

\* where g goes after the store, and after the load
AfterStore(pc) == CASE pc = "bg" -> "bgRead" [] pc = "fg" -> "fgRead" [] pc = "gc" -> "gcRead"

\* g has stored: it holds the address it stored until it loads the slot
Stored(g, mem) ==
    Step(g, [gs[g] EXCEPT !.pc = AfterStore(gs[g].pc), !.own = mem.colorPtr], mem)

\* g got c from getColor: GetColor returns the code the flags choose;
\* FormatText appends the code and goes on, to the next block or to its end
Loaded(g, c) ==
    CASE gs[g].pc = "gcRead" ->
            Step(g, Done(g, codeOf(c, gs[g].call.ctx, trueColor, xTerm).str,
                         codeOf(c, gs[g].call.ctx, trueColor, xTerm).err), c.mem)
      [] gs[g].pc = "bgRead" ->
            Step(g, [gs[g] EXCEPT !.pc = "fg", !.own = Nil,
                        !.builder = appendCode(c, background, trueColor, gs[g].builder).builder],
                 c.mem)
      [] gs[g].pc = "fgRead" ->
            Step(g, Done(g, finish(appendCode(c, foreground, trueColor,
                                              gs[g].builder).builder,
                                   gs[g].call.text), NoErr), c.mem)

\* g, in FormatText, passes a colour block whose hex is ""
GoSkip(g) ==
    /\ gs[g].pc \in {"bg", "fg"}
    /\ HexAt(g) = <<>>
    /\ IF gs[g].pc = "bg"
       THEN Step(g, [gs[g] EXCEPT !.pc = "fg"], Mem(heap, colorPtr))
       ELSE Step(g, Done(g, finish(gs[g].builder, gs[g].call.text), NoErr),
                 Mem(heap, colorPtr))

\* g runs getColor up to its store: it returns the error of validateHex, or
\* stores the address of the new color in the slot
GoStore(g) ==
    /\ gs[g].pc \in {"bg", "fg", "gc"}
    /\ HexAt(g) # <<>> \/ gs[g].pc = "gc"
    /\ IF validateHex(HexAt(g)) # NoErr
       THEN Step(g, Done(g, IF gs[g].pc = "gc" THEN <<>> ELSE gs[g].call.text,
                         validateHex(HexAt(g))),
                 Mem(heap, colorPtr))
       ELSE Stored(g, storeColor(HexAt(g), Mem(heap, colorPtr)))

\* g runs getColor's return colorPtr and uses the pointer p it got: the slot
\* as it is now, or the address g stored if the build keeps it in a register
GoLoad(g, p) ==
    /\ gs[g].pc \in {"bgRead", "fgRead", "gcRead"}
    /\ p \in {colorPtr, gs[g].own}
    /\ Loaded(g, [col |-> p, err |-> NoErr, mem |-> Mem(heap, colorPtr)])

\* the caller of g's call takes the result
GoReturn(g) ==
    /\ gs[g].pc = "done"
    /\ Step(g, IdleG, Mem(heap, colorPtr))

NextConc ==
    \/ \E g \in Goroutines, text \in ConcTexts, options \in ConcOptions :
          GoFormatText(g, text, options)
    \/ \E g \in Goroutines, hex \in ConcHexes : GoGetColor(g, hex, foreground)
    \/ \E g \in Goroutines : GoSkip(g)
    \/ \E g \in Goroutines : GoStore(g)
    \/ \E g \in Goroutines, p \in Addrs : GoLoad(g, p)
    \/ \E g \in Goroutines : GoReturn(g)

SpecConc == InitConc /\ [][NextConc]_vars

-----------------------------------------------------------------------------
(* Vocabulary of the properties *)

\* s ends with t
EndsWith(s, t) == Len(s) >= Len(t) /\ SubSeq(s, Len(s) - Len(t) + 1, Len(s)) = t

\* s is an optional # followed by exactly six hexadecimal digits
IsHexCode(s) ==
    \E n \in {0, 1} :
        /\ Len(s) = 6 + n
        /\ n = 1 => s[1] = "#"
        /\ \A i \in 1 .. 6 : s[n + i] \in HexClass

\* the base-16 value of the k-th digit pair of a hex code
PairVal(s, k) ==
    LET d == SubSeq(s, Len(s) - 5, Len(s))
    IN 16 * DigitVal(d[2 * k - 1]) + DigitVal(d[2 * k])

\* the color a hex code denotes
ColorOfHex(s) == Color(PairVal(s, 1), PairVal(s, 2), PairVal(s, 3))

\* a call of FormatText, or of a wrapper of it that returns its error, returned
FormatReturned ==
    ret.done /\ call.op \in {"FormatText", "ForegroundText", "BackgroundText"}

\* the options FormatText works on in the call that returned
OptionsUsed ==
    CASE call.op = "ForegroundText" -> Opts(<<>>, call.hex, <<>>)
      [] call.op = "BackgroundText" -> Opts(call.hex, <<>>, <<>>)
      [] OTHER -> call.options

\* no style name of the options is a recognized one, and no colour is asked for
NoCodeAsked(o) ==
    /\ o.BgColor = <<>>
    /\ o.FgColor = <<>>
    /\ \A i \in DOMAIN o.Styles : o.Styles[i] \notin DOMAIN styles

RECURSIVE Flatten(_)
Flatten(ss) == IF ss = <<>> THEN <<>> ELSE Head(ss) \o Flatten(Tail(ss))

IsKnownStyle(n) == n \in DOMAIN styles

\* the codes of the recognized names of a list, in the order of the list
KnownStyleCodes(names) ==
    LET known == SelectSeq(names, IsKnownStyle)
    IN Flatten([i \in DOMAIN known |-> styles[known[i]]])

\* the code of colour hex in context ctx under the current flags: what
\* GetColor returns for it in a fresh process; nothing for the hex ""
CodeFor(hex, ctx) ==
    IF hex = <<>> THEN <<>> ELSE GetColor(hex, ctx, trueColor, xTerm, InitMem).str

\* styles, background, foreground: what is to precede the text
ExpectedPrefix(o) ==
    KnownStyleCodes(o.Styles) \o CodeFor(o.BgColor, background)
        \o CodeFor(o.FgColor, foreground)

-----------------------------------------------------------------------------
(* C1 *)

\* C1: whenever FormatText, ForegroundText or BackgroundText returns a non-nil
\* error, the string it returns is exactly the input text.
C1_ErrorReturnsText == (FormatReturned /\ ret.err # NoErr) => ret.str = call.text

\* a style and a valid background were processed before the invalid foreground
C1_Witness ==
    /\ FormatReturned
    /\ call.op = "FormatText"
    /\ trueColor
    /\ call.options = Opts(hexBlue, hexBadRed, <<"bold">>)
    /\ call.text = <<"h", "i">>
    /\ ret.err = HexErr(hexBadRed)
    /\ ret.str = call.text

-----------------------------------------------------------------------------
(* C2 *)

\* C2: getColor and validateHex succeed exactly on an optional # followed by
\* six hexadecimal digits; on success getColor returns the color whose r, g, b
\* are the base-16 values of the three digit pairs; on any other string they
\* return the HEXERR error, and getColor no color.
C2_HexValidation ==
    (ret.done /\ call.op \in {"getColor", "validateHex"}) =>
        /\ (ret.err = NoErr) <=> IsHexCode(call.hex)
        /\ ret.err # NoErr => (ret.err = HexErr(call.hex) /\ ret.ptr = Nil)
        /\ (call.op = "getColor" /\ ret.err = NoErr) =>
              (ret.ptr # Nil /\ heap[ret.ptr] = ColorOfHex(call.hex))

\* "#12abAB" parses to (18, 171, 171)
C2_Witness ==
    /\ ret.done
    /\ call.op = "getColor"
    /\ call.hex = <<"#", "1", "2", "a", "b", "A", "B">>
    /\ ret.err = NoErr
    /\ heap[ret.ptr] = Color(18, 171, 171)

-----------------------------------------------------------------------------
(* C3 *)

\* the digit that tells foreground (38) from background (48)
CtxDigit(ctx) == IF ctx = background THEN "4" ELSE "3"

\* C3: for a valid hex and a context, GetColor returns the true-color code
\* ESC[38;2;R;G;Bm / ESC[48;2;R;G;Bm when trueColor is set (xTerm set or not),
\* the Xterm code ESC[38;5;Nm / ESC[48;5;Nm when only xTerm is set, both with
\* no error, and an error with an empty code when neither is set.
C3_CodeFamily ==
    (ret.done /\ call.op = "GetColor" /\ IsHexCode(call.hex)
        /\ call.ctx \in {background, foreground}) =>
        LET c == ColorOfHex(call.hex)
            head == <<ESC, "[", CtxDigit(call.ctx), "8", ";">>
        IN IF trueColor
           THEN /\ ret.err = NoErr
                /\ ret.str = head \o <<"2", ";">> \o Itoa(c.r) \o <<";">> \o Itoa(c.g)
                                \o <<";">> \o Itoa(c.b) \o <<"m">>
           ELSE IF xTerm
           THEN /\ ret.err = NoErr
                /\ ret.str = head \o <<"5", ";">> \o Itoa(rgbToXterm(c)) \o <<"m">>
           ELSE ret.err # NoErr /\ ret.str = <<>>

\* both flags set: the true-color background code of red
C3_Witness ==
    /\ ret.done
    /\ call.op = "GetColor"
    /\ call.hex = hexRed
    /\ call.ctx = background
    /\ trueColor
    /\ xTerm
    /\ ret.err = NoErr
    /\ ret.str = <<ESC, "[", "4", "8", ";", "2", ";", "2", "5", "5", ";", "0", ";", "0", "m">>

-----------------------------------------------------------------------------
(* C4 *)

\* C4 as stated: a successful FormatText with a flag set returns the codes of
\* the recognized styles in order, the background code, the foreground code,
\* the text, and then the reset code.
C4_AlwaysReset ==
    (FormatReturned /\ ret.err = NoErr /\ (trueColor \/ xTerm)) =>
        ret.str = ExpectedPrefix(OptionsUsed) \o call.text \o reset

\* C4 amended: ... and then the reset code, unless no code at all precedes the
\* text, and then nothing follows the text.
C4_Layout ==
    (FormatReturned /\ ret.err = NoErr /\ (trueColor \/ xTerm)) =>
        LET prefix == ExpectedPrefix(OptionsUsed)
        IN ret.str = prefix \o call.text \o (IF prefix = <<>> THEN <<>> ELSE reset)

\* an unknown style, a style, both colours
C4_Witness ==
    /\ FormatReturned
    /\ call.op = "FormatText"
    /\ call.options = Opts(hexBlue, hexRed, <<"invalid", "bold">>)
    /\ call.text = <<"h", "i">>
    /\ trueColor
    /\ ret.err = NoErr
    /\ ret.str = <<ESC, "[", "1", "m">>
                    \o <<ESC, "[", "4", "8", ";", "2", ";", "0", ";", "0", ";", "2", "5", "5", "m">>
                    \o <<ESC, "[", "3", "8", ";", "2", ";", "2", "5", "5", ";", "0", ";", "0", "m">>
                    \o <<"h", "i">> \o reset

-----------------------------------------------------------------------------
(* C5 *)

\* a call of FormatText or of any of its wrappers returned
AnyFormatReturned == FormatReturned \/ (ret.done /\ call.op = "StyleText")

\* C5: with a flag set, when the options hold only unrecognized style names
\* and no colours, FormatText and StyleText return the text unchanged, with
\* no reset and a nil error; every other successful call returns a string
\* that ends with the text and then the reset code, after at least one code.
C5_ResetIffCode ==
    (AnyFormatReturned /\ (trueColor \/ xTerm) /\ ~noOptions(OptionsUsed)) =>
        IF NoCodeAsked(OptionsUsed)
        THEN ret.err = NoErr /\ ret.str = call.text
        ELSE ret.err = NoErr =>
                /\ EndsWith(ret.str, call.text \o reset)
                /\ Len(ret.str) > Len(call.text) + Len(reset)

\* only an unrecognized style: the text comes back as it is
C5_Witness ==
    /\ ret.done
    /\ call.op = "StyleText"
    /\ xTerm
    /\ ~trueColor
    /\ call.options.Styles = <<"invalid">>
    /\ call.text = <<"h", "i">>
    /\ ret.err = NoErr
    /\ ret.str = <<"h", "i">>

-----------------------------------------------------------------------------
(* C6 *)

\* the error of the first failing check, in the order: no options, no
\* capability, background hex, foreground hex
FirstError(o) ==
    IF o.isNil \/ (o.BgColor = <<>> /\ o.FgColor = <<>> /\ o.Styles = <<>>)
    THEN NoOptionsErr
    ELSE IF ~trueColor /\ ~xTerm THEN SysNoColorErr
    ELSE IF o.BgColor # <<>> /\ ~IsHexCode(o.BgColor) THEN HexErr(o.BgColor)
    ELSE IF o.FgColor # <<>> /\ ~IsHexCode(o.FgColor) THEN HexErr(o.FgColor)
    ELSE NoErr

\* C6: FormatText reports the error of the first failing check in the order
\* no options, unsupported terminal, invalid background hex, invalid
\* foreground hex (and no error when no check fails).
C6_ErrorOrder == FormatReturned => ret.err = FirstError(OptionsUsed)

\* an invalid hex with no capability: the unsupported-terminal error
C6_Witness ==
    /\ FormatReturned
    /\ call.op = "FormatText"
    /\ ~trueColor
    /\ ~xTerm
    /\ call.options = Opts(hexBadBlue, hexBadRed, <<>>)
    /\ ret.err = SysNoColorErr

-----------------------------------------------------------------------------
(* C7 *)

\* rgbToXterm returned for the gray (v, v, v)
GrayReturned(v) == ret.done /\ call.op = "rgbToXterm" /\ call.col = Color(v, v, v)

FiveShades == {232, 237, 242, 247, 252}
FourShades == {232, 237, 242, 247}

\* C7 as stated: black gives 0, white gives 15, and every gray strictly
\* between gives one of the five shades 232, 237, 242, 247, 252, each of
\* them given by some such gray.
C7_FiveShades ==
    \A v \in 0 .. 255 :
        GrayReturned(v) =>
            /\ v = 0 => ret.code = 0
            /\ v = 255 => ret.code = 15
            /\ (0 < v /\ v < 255) => ret.code \in FiveShades
            /\ \A i \in FiveShades : \E w \in 1 .. 254 : rgbToXterm(Color(w, w, w)) = i

\* C7 amended: black gives 0, white gives 15, and a gray (v, v, v) strictly
\* between gives 0 for v <= 5, 15 for v >= 210 and otherwise one of the four
\* shades 232, 237, 242, 247, each of them given by some gray; 252 is given
\* by no gray.
C7_Grays ==
    /\ \A v \in 0 .. 255 :
          GrayReturned(v) =>
              /\ v = 0 => ret.code = 0
              /\ v = 255 => ret.code = 15
              /\ (0 < v /\ v <= 5) => ret.code = 0
              /\ (210 <= v /\ v < 255) => ret.code = 15
              /\ (5 < v /\ v < 210) => ret.code \in FourShades
    /\ (ret.done /\ call.op = "rgbToXterm") =>
          /\ \A i \in FourShades : \E v \in 1 .. 254 : rgbToXterm(Color(v, v, v)) = i
          /\ \A v \in 0 .. 255 : rgbToXterm(Color(v, v, v)) # 252

\* the gray (128, 128, 128) gives 242
C7_Witness == GrayReturned(128) /\ ret.code = 242

-----------------------------------------------------------------------------
(* C9 *)

\* what the call c returns when it is the first call of a process whose
\* flags are tc, xt
FreshResult(c, tc, xt) ==
    CASE c.op = "FormatText" -> FormatText(c.text, c.options, tc, xt, InitMem)
      [] c.op = "ForegroundText" -> ForegroundText(c.text, c.hex, tc, xt, InitMem)
      [] c.op = "BackgroundText" -> BackgroundText(c.text, c.hex, tc, xt, InitMem)
      [] c.op = "StyleText" -> StyleText(c.text, c.options.Styles, tc, xt, InitMem)
      [] c.op = "GetColor" -> GetColor(c.hex, c.ctx, tc, xt, InitMem)

\* C9: whatever calls and flag changes came before, a call returns the string
\* and the error that the same call returns as the first call of a process
\* with the same flag values; so two calls with equal arguments under equal
\* flags return equal results.
C9_NoCaching ==
    (ret.done /\ call.op \in {"FormatText", "ForegroundText", "BackgroundText",
                              "StyleText", "GetColor"}) =>
        /\ ret.str = FreshResult(call, trueColor, xTerm).str
        /\ ret.err = FreshResult(call, trueColor, xTerm).err

\* a call made after another call left a color in the slot and after the
\* flags were changed
C9_Witness ==
    /\ ret.done
    /\ call.op = "FormatText"
    /\ call.options = Opts(<<>>, hexRed, <<>>)
    /\ prior.calls
    /\ prior.flags
    /\ prior.slot
    /\ xTerm
    /\ ~trueColor
    /\ ret.err = NoErr
    /\ ret.str = <<ESC, "[", "3", "8", ";", "5", ";", "1", "9", "6", "m">> \o call.text \o reset

-----------------------------------------------------------------------------
(* C10 *)

\* one to three decimal digits
IsNumber(f) == Len(f) \in 1 .. 3 /\ \A i \in DOMAIN f : f[i] \in Range(DecDigits)

RECURSIVE Fields(_)
\* the fields of s between its semicolons
Fields(s) ==
    IF \A i \in DOMAIN s : s[i] # ";" THEN <<s>>
    ELSE LET k == CHOOSE i \in DOMAIN s : s[i] = ";" /\ \A j \in 1 .. i - 1 : s[j] # ";"
         IN <<SubSeq(s, 1, k - 1)>> \o Fields(SubSeq(s, k + 1, Len(s)))

\* c is a true-color or 256-color code: a colour prefix, three numbers or one
\* between semicolons, and m
IsColorCode(c) ==
    /\ Len(c) > Len(fgTrueColor) + 1
    /\ c[Len(c)] = "m"
    /\ LET head == SubSeq(c, 1, Len(fgTrueColor))
           nums == Fields(SubSeq(c, Len(fgTrueColor) + 1, Len(c) - 1))
       IN /\ \A i \in DOMAIN nums : IsNumber(nums[i])
          /\ \/ head \in {fgTrueColor, bgTrueColor} /\ Len(nums) = 3
             \/ head \in {fgXterm, bgXterm} /\ Len(nums) = 1

\* c is one of the escape sequences the package emits
IsRecognized(c) == c \in Range(styles) \/ c = reset \/ IsColorCode(c)

\* the length of the recognized escape sequence s starts with, 0 if none:
\* a sequence starts with ESC and ends at the first m
SequenceAt(s) ==
    IF s = <<>> \/ Head(s) # ESC \/ \A i \in DOMAIN s : s[i] # "m" THEN 0
    ELSE LET k == CHOOSE i \in DOMAIN s : s[i] = "m" /\ \A j \in 1 .. i - 1 : s[j] # "m"
         IN IF IsRecognized(SubSeq(s, 1, k)) THEN k ELSE 0

RECURSIVE Strip(_)
\* s without its recognized escape sequences, removed from left to right
Strip(s) ==
    IF s = <<>> THEN <<>>
    ELSE IF SequenceAt(s) > 0 THEN Strip(SubSeq(s, SequenceAt(s) + 1, Len(s)))
    ELSE <<Head(s)>> \o Strip(Tail(s))

\* no recognized escape sequence occurs in s
EscapeFree(s) == \A i \in DOMAIN s : SequenceAt(SubSeq(s, i, Len(s))) = 0

\* C10 as stated: for every text and options for which FormatText succeeds,
\* removing the recognized escape sequences from the result gives the text.
C10_RoundTripAnyText ==
    (AnyFormatReturned /\ ret.err = NoErr) => Strip(ret.str) = call.text

\* C10 amended: for every text that holds no recognized escape sequence and
\* every options for which FormatText succeeds, removing the recognized
\* escape sequences from the result gives the text.
C10_RoundTrip ==
    (AnyFormatReturned /\ ret.err = NoErr /\ EscapeFree(call.text)) =>
        Strip(ret.str) = call.text

\* styles and both colours under Xterm are written and stripped again
C10_Witness ==
    /\ FormatReturned
    /\ call.op = "FormatText"
    /\ call.options = Opts(hexBlue, hexMixed, <<"italic", "bold">>)
    /\ call.text = <<"h", "i">>
    /\ xTerm
    /\ ~trueColor
    /\ ret.err = NoErr
    /\ Len(ret.str) > Len(call.text) + Len(reset)
    /\ Strip(ret.str) = <<"h", "i">>

-----------------------------------------------------------------------------
(* C8 *)

\* C8: when calls of FormatText and GetColor run concurrently, every call
\* returns what it returns when run alone: the code of its own hex.
C8_OwnColor ==
    \A g \in Goroutines :
        gs[g].pc = "done" =>
            /\ gs[g].str = FreshResult(gs[g].call, trueColor, xTerm).str
            /\ gs[g].err = FreshResult(gs[g].call, trueColor, xTerm).err

-----------------------------------------------------------------------------
(* C11 *)

\* C11: for every text and every non-empty list of recognized style names,
\* StyleText returns a string strictly longer than the text, whatever the
\* values of trueColor and xTerm.
C11_StylesApplied ==
    ( /\ ret.done
      /\ call.op = "StyleText"
      /\ call.options.Styles # <<>>
      /\ \A i \in DOMAIN call.options.Styles :
             IsKnownStyle(call.options.Styles[i]) ) =>
        Len(ret.str) > Len(call.text)

-----------------------------------------------------------------------------
(* C12 *)

\* floor((10c + 459) / 510)
FloorLevel(c) == (10 * c + 459) \div 510

\* round(c/51 + 0.4) clamped to [0,5], the sum taken as (10c + 204) / 510
RoundLevel(c) ==
    IF Round(10 * c + 204, 510) > 5 THEN 5 ELSE Round(10 * c + 204, 510)

RgbToXtermReturned == ret.done /\ call.op = "rgbToXterm"

LevelsDiffer(col) ==
    ~(FloorLevel(col.r) = FloorLevel(col.g) /\ FloorLevel(col.g) = FloorLevel(col.b))

\* 16 + 36*L(r) + 6*L(g) + L(b) in unbounded integers
ColorIndex(col) ==
    16 + 36 * FloorLevel(col.r) + 6 * FloorLevel(col.g) + FloorLevel(col.b)

\* C12: for every input whose three levels are not all equal, rgbToXterm
\* returns 16 + 36*L(r) + 6*L(g) + L(b) with L(c) = round(c/51 + 0.4) clamped
\* to [0,5] = floor((10c + 459)/510); no product or sum of the computation
\* exceeds 255, and the result lies in 17..230.
C12_ColorIndex ==
    RgbToXtermReturned =>
        /\ \A c \in {call.col.r, call.col.g, call.col.b} :
               /\ RoundLevel(c) = FloorLevel(c)
               /\ FloorLevel(c) \in 0 .. 5
        /\ LevelsDiffer(call.col) =>
               /\ ret.code = ColorIndex(call.col)
               /\ 36 * FloorLevel(call.col.r) <= 255
               /\ ColorIndex(call.col) <= 255
               /\ ret.code >= 17
               /\ ret.code <= 230

\* pure red gives 196
C12_Witness ==
    /\ RgbToXtermReturned
    /\ call.col = Color(255, 0, 0)
    /\ LevelsDiffer(call.col)
    /\ ret.code = 196

-----------------------------------------------------------------------------
(* C13 *)

\* round(c/42.5 + 0.4) clamped to [0,5], the sum taken as (10c + 170) / 425
\* (never a half: 20c + 340 is even, 425 odd)
Level425(c) ==
    IF Round(10 * c + 170, 425) > 5 THEN 5 ELSE Round(10 * c + 170, 425)

\* k is the integer nearest to c/51 + 0.4 = (10c + 204) / 510
Nearest51(c, k) == 10 * c + 204 - 510 * k > -255 /\ 10 * c + 204 - 510 * k < 255

Channels(col) == {col.r, col.g, col.b}

\* C13: for every channel value c, the level rgbToXterm computes for c is
\* round(c/42.5 + 0.4) clamped to [0,5].
C13_Level425 ==
    RgbToXtermReturned =>
        \A c \in Channels(call.col) : Level(c) = Level425(c)

\* C13, amended: for every channel value c, the level rgbToXterm computes for
\* c is the integer nearest to c/51 + 0.4, and it lies in 0..5 unclamped.
C13_Level51 ==
    RgbToXtermReturned =>
        \A c \in Channels(call.col) :
            /\ Level(c) \in 0 .. 5
            /\ Nearest51(c, Level(c))

\* the gray (5,5,5): level 0 and black, where c/42.5 + 0.4 rounds to 1
C13_Witness ==
    /\ RgbToXtermReturned
    /\ call.col = Color(5, 5, 5)
    /\ Level(5) = 0
    /\ Level425(5) = 1
    /\ ret.code = xTermBlack

-----------------------------------------------------------------------------
(* One caller making calls one after the other and keeping the color an     *)
(* earlier call of getColor returned, as FormatText keeps bgColor while it  *)
(* parses the foreground.  The caller is goroutine 1: own is the pointer it *)
(* keeps, call the call of getColor that returned it.                       *)

SeqTexts == {<<"h", "i">>}
SeqHexes == {<<>>, hexRed, hexBlue, hexGray, hexNotHex}
SeqOptions ==
    {Opts(hexBlue, hexRed, <<>>), Opts(hexBlue, hexBadRed, <<"bold">>),
     Opts(hexBadBlue, hexRed, <<>>), Opts(hexGray, hexMixed, <<"bold">>),
     Opts(<<>>, hexMixed, <<>>)}

InitSeq ==
    /\ trueColor \in BOOLEAN
    /\ xTerm \in BOOLEAN
    /\ heap = EmptyHeap
    /\ colorPtr = Nil
    /\ call = NoCall
    /\ ret = NoRet
    /\ prior = NoPrior
    /\ gs = [g \in Goroutines |-> IdleG]

\* the call c returns the string str, the error err and the pointer ptr, and
\* leaves the memory mem, less the garbage: the slot, the pointer returned
\* and the pointer the caller keeps are live
SeqReturns(c, str, err, ptr, mem) ==
    /\ call.op = "none"
    /\ call' = c
    /\ ret' = Returned(str, err, ptr, 0)
    /\ colorPtr' = mem.colorPtr
    /\ heap' = Collect(mem.heap, Roots(mem.colorPtr, gs) \cup ({ptr} \ {Nil}))
    /\ UNCHANGED <<trueColor, xTerm, prior, gs>>

\* c returns what getColor returned
SeqGot(c, r) == SeqReturns(c, <<>>, r.err, r.col, r.mem)

\* c returns what FormatText returned
SeqFormatted(c, r) == SeqReturns(c, r.str, r.err, Nil, r.mem)

\* col, err := getColor(hex)
SeqGetColor(hex) ==
    SeqGot(Call("getColor", <<>>, NilOptions, hex, foreground, Free),
           getColor(hex, Mem(heap, colorPtr)))

\* FormatText(text, options)
SeqFormatText(text, options) ==
    SeqFormatted(Call("FormatText", text, options, <<>>, foreground, Free),
                 FormatText(text, options, trueColor, xTerm, Mem(heap, colorPtr)))

\* the caller keeps the color the call of getColor returned, in place of the
\* one it kept before
SeqKeep ==
    /\ ret.done
    /\ call.op = "getColor"
    /\ ret.err = NoErr
    /\ gs' = [gs EXCEPT ![1] = [IdleG EXCEPT !.call = call, !.own = ret.ptr]]
    /\ call' = NoCall
    /\ ret' = NoRet
    /\ heap' = Collect(heap, {colorPtr, ret.ptr} \ {Nil})
    /\ UNCHANGED <<trueColor, xTerm, colorPtr, prior>>

\* the caller drops what the call returned
SeqDiscard ==
    /\ ret.done
    /\ call' = NoCall
    /\ ret' = NoRet
    /\ heap' = Collect(heap, Roots(colorPtr, gs))
    /\ UNCHANGED <<trueColor, xTerm, colorPtr, prior, gs>>

NextSeq ==
    \/ \E hex \in SeqHexes : SeqGetColor(hex)
    \/ \E text \in SeqTexts, options \in SeqOptions : SeqFormatText(text, options)
    \/ SeqKeep
    \/ SeqDiscard

SpecSeq == InitSeq /\ [][NextSeq]_vars

-----------------------------------------------------------------------------
(* C14 *)

\* the pointer the caller keeps from an earlier call of getColor
Kept == gs[1].own

\* a call of getColor is made in this step
GetColorCalled == call.op = "none" /\ call'.op = "getColor"

\* the call of this step failed: the slot and every object are as before
FailureLeavesSlot ==
    (GetColorCalled /\ ret'.err # NoErr) =>
        /\ ret'.err = HexErr(call'.hex)
        /\ ret'.ptr = Nil
        /\ colorPtr' = colorPtr
        /\ heap' = heap

\* the call of this step succeeded: the slot points at an object that did
\* not exist before, holding the color of the hex, and it is the pointer
\* returned; the color the caller keeps is as before
SuccessAllocates ==
    (GetColorCalled /\ ret'.err = NoErr) =>
        /\ colorPtr' # Nil
        /\ colorPtr' # colorPtr
        /\ heap[colorPtr'] = Free
        /\ heap'[colorPtr'] = ColorOfHex(call'.hex)
        /\ ret'.ptr = colorPtr'
        /\ Kept # Nil => (Kept # colorPtr' /\ heap'[Kept] = heap[Kept])

\* the color kept is the color of the hex it was parsed from
KeptColorStays ==
    Kept # Nil => heap[Kept] = ColorOfHex(gs[1].call.hex)

\* a FormatText with both colours that succeeded wrote the code of the
\* background hex and then the code of the foreground hex
BothCodesOwnHex ==
    ( /\ ret.done
      /\ call.op = "FormatText"
      /\ ret.err = NoErr
      /\ call.options.BgColor # <<>>
      /\ call.options.FgColor # <<>> ) =>
        ret.str = KnownStyleCodes(call.options.Styles)
                      \o CodeFor(call.options.BgColor, background)
                      \o CodeFor(call.options.FgColor, foreground)
                      \o call.text \o reset

\* C14: in a sequence of calls by one caller, a call of getColor that fails
\* leaves the slot colorPtr unchanged, a call that succeeds points the slot
\* at a newly allocated color and overwrites none; so a color an earlier call
\* returned keeps its r, g, b after any later call, and the background and
\* foreground codes of one FormatText each are the code of their own hex.
C14_Frame ==
    /\ [][FailureLeavesSlot /\ SuccessAllocates]_vars
    /\ [](KeptColorStays /\ BothCodesOwnHex)

\* the caller keeps the blue an earlier call returned; a later call parsed
\* red into another object, which the slot now points at
C14_Witness ==
    /\ Kept # Nil
    /\ gs[1].call.hex = hexBlue
    /\ ret.done
    /\ call.op = "getColor"
    /\ call.hex = hexRed
    /\ ret.err = NoErr
    /\ ret.ptr = colorPtr
    /\ colorPtr # Kept
    /\ heap[Kept] = Color(0, 0, 255)
    /\ heap[colorPtr] = Color(255, 0, 0)

=============================================================================
